---- MODULE Spec2Model ----
(***************************************************************************)
(* Model of the Starlink exporter's BandwidthTracker (the accumulator and  *)
(* its background poller) and of the StarlinkCollector scrape path.        *)
(*                                                                         *)
(* Numbers: the Go code keeps totals and samples as float64.  Samples are  *)
(* drawn here from naturals on which the code's conversions (/ 8.0 and     *)
(* / 1000.0) are exact, so every float operation the code performs on them *)
(* is exact and integer arithmetic computes the same value.  The uint64    *)
(* sequence counter is modelled at a reduced width (UintRange values).     *)
(***************************************************************************)
EXTENDS Integers, Sequences, FiniteSets, TLC

\* ---------------------------------------------------------------- bounds
MaxLen == 2
MaxSeq == 3
MaxTicks == 3

\* ------------------------------------------------------------- constants
BitsPerByte == 8
MsPerSecond == 1000

\* --------------------------------------------------------- input domains
Lens == 1..MaxLen
Seqs == 0..MaxSeq
UintRange == MaxSeq + 1
Patterns == {0, 1}
Scrapers == {"s1", "s2"}
OneScraper == {"s1"}

\* if b { v = 1.0 } with v := 0.0
BoolToFloat(b) == IF b THEN 1 ELSE 0

MkStatus(k, gps, snr) ==
  [DeviceInfo |-> [ID |-> <<"id", k>>, HardwareVersion |-> <<"hw", k>>,
                   SoftwareVersion |-> <<"sw", k>>, CountryCode |-> <<"cc", k>>],
   DeviceState |-> [UptimeS |-> 10 * k + 4],
   ObstructionStats |-> [FractionObstructed |-> 10 * k + 5, ValidS |-> 10 * k + 6],
   DownlinkThroughputBps |-> 10 * k + 1,
   UplinkThroughputBps |-> 10 * k + 2,
   PopPingLatencyMs |-> 10 * k + 3,
   GPSStats |-> [GPSValid |-> gps, GPSSats |-> 10 * k + 7],
   EthSpeedMbps |-> 10 * k + 8,
   IsSnrAboveNoiseFloor |-> snr]

\* The status responses the device gives.
Statuses == {MkStatus(1, TRUE, FALSE), MkStatus(2, FALSE, TRUE)}

\* The zero StatusResponse, standing for the nil pointer of a failed call.
NoStatus == MkStatus(0, FALSE, FALSE)
Stoppers == {"t1", "t2"}
NoHistory == [Current |-> 0, DownlinkThroughputBps |-> <<>>, UplinkThroughputBps |-> <<>>,
              PowerIn |-> <<>>, PopPingLatencyMs |-> <<>>, PopPingDropRate |-> <<>>]

\* Sample stored in slot j (0-based) of the array `kind` under pattern pat.
\* Slots of one array carry distinct values and the five arrays differ, so
\* that a total identifies the slots and the array it was summed from.
SampleValue(kind, j, pat) ==
  CASE kind = "down"    -> BitsPerByte * (j + 1 + pat)
    [] kind = "up"      -> BitsPerByte * (2 * j + 3 + pat)
    [] kind = "power"   -> 5 * j + 7 + pat
    [] kind = "latency" -> MsPerSecond * (3 * j + 2 + pat)
    [] kind = "drop"    -> (j + pat) % 2

MkArray(kind, n, pat) == [j \in 1..n |-> SampleValue(kind, j - 1, pat)]

\* A history response whose five arrays have the lengths given.
MkHistory(cur, nd, nu, np, nl, nr, pat) ==
  [Current |-> cur,
   DownlinkThroughputBps |-> MkArray("down", nd, pat),
   UplinkThroughputBps |-> MkArray("up", nu, pat),
   PowerIn |-> MkArray("power", np, pat),
   PopPingLatencyMs |-> MkArray("latency", nl, pat),
   PopPingDropRate |-> MkArray("drop", nr, pat)]

ValidHistories == { MkHistory(cur, n, n, n, n, n, pat) : cur \in Seqs, n \in Lens, pat \in Patterns }

EmptyHistories == { MkHistory(cur, 0, n, n, n, n, 0) : cur \in {0, MaxSeq}, n \in {0, 1} }

\* One of the other four arrays is one sample shorter or longer than the
\* downlink array, or all four are shorter.
MismatchedHistories ==
  { MkHistory(MaxSeq, MaxLen, MaxLen + o[1], MaxLen + o[2], MaxLen + o[3], MaxLen + o[4], 0) :
      o \in { <<-1, 0, 0, 0>>, <<0, -1, 0, 0>>, <<0, 0, -1, 0>>, <<0, 0, 0, -1>>,
              <<1, 0, 0, 0>>, <<0, 1, 0, 0>>, <<0, 0, 1, 0>>, <<0, 0, 0, 1>>,
              <<-1, -1, -1, -1>> } }

Histories == ValidHistories \cup EmptyHistories \cup MismatchedHistories

FewHistories == { MkHistory(cur, MaxLen, MaxLen, MaxLen, MaxLen, MaxLen, 0) : cur \in {0, MaxSeq} }

\* ------------------------------------------------------------------ state
VARIABLES
  bt,          \* the BandwidthTracker's accumulator fields
  muWriter,    \* bt.mu is held exclusively (Lock)
  muReaders,   \* the scrapes holding bt.mu shared (RLock)
  pollerPc,    \* position of the goroutine running Start / update
  history,     \* update's local: the response GetHistory returned
  ticks,       \* ticker firings consumed so far
  log,         \* records logged by the last update() call
  visited,     \* every idx of the last processHistory loop, in order
  scPc,        \* position of each scrape inside Collect
  out,         \* what each scrape has sent on the metrics channel
  held,        \* the six-total tuples the accumulator has held
  integrated,  \* how often each device sample has been integrated
  regressed,   \* some update saw Current below lastCurrent
  overrun,     \* some update saw a delta above the buffer length
  bufLen,      \* lengths of the valid histories processed so far
  ctxDone,     \* the context handed to Start has been cancelled
  stopCh,      \* bt.stopCh: "open" or "closed"
  stoppedCh,   \* bt.stoppedCh: "open" or "closed"
  stopOnce,    \* bt.stopOnce has run its function
  stopPc,      \* position of each Stop call
  closes,      \* how many times close(bt.stopCh) has been executed
  status,      \* the status response each scrape holds
  statusCalls, \* GetStatus calls each scrape has made since it began
  lePc,        \* position of the caller of GetLastError
  leOut,       \* what GetLastError returned last
  calls,       \* GetHistory and processHistory calls of the current tick
  before       \* what the other scrapes had sent when the Follower's scrape began

vars == <<bt, muWriter, muReaders, pollerPc, history, ticks, log, visited,
          scPc, out, held, integrated, regressed, overrun, bufLen,
          ctxDone, stopCh, stoppedCh, stopOnce, stopPc, closes,
          status, statusCalls, lePc, leOut, calls, before>>

\* ------------------------------------------------ accumulator (pure part)
Totals(b) == <<b.downloadBytesTotal, b.uploadBytesTotal, b.energyJoulesTotal,
               b.pingLatencySecondsSum, b.pingLatencySampleCount, b.pingDropCount>>

\* NewBandwidthTracker: every field not named keeps Go's zero value.
NewBandwidthTracker ==
  [lastCurrent |-> 0, downloadBytesTotal |-> 0, uploadBytesTotal |-> 0,
   energyJoulesTotal |-> 0, pingLatencySecondsSum |-> 0,
   pingLatencySampleCount |-> 0, pingDropCount |-> 0,
   lastError |-> "nil", initialized |-> FALSE]

\* x / 8.0 and x / 1000.0 on the sample domain (exact there).
BitsToBytes(x) == x \div BitsPerByte
MsToSeconds(x) == x \div MsPerSecond

ArrayLen(h) == Len(h.DownlinkThroughputBps)

\* Variant: the comparison of the power array is missing.
LengthsMatchIgnoresPower(h) ==
  /\ Len(h.UplinkThroughputBps) = ArrayLen(h)
  /\ Len(h.PopPingLatencyMs) = ArrayLen(h)
  /\ Len(h.PopPingDropRate) = ArrayLen(h)

LengthsMatch(h) ==
  /\ Len(h.UplinkThroughputBps) = ArrayLen(h)
  /\ Len(h.PowerIn) = ArrayLen(h)
  /\ Len(h.PopPingLatencyMs) = ArrayLen(h)
  /\ Len(h.PopPingDropRate) = ArrayLen(h)

\* Variant: counts both ends of the interval lastCurrent..current.
TimeDeltaInclusive(current, lastCurrent) == (current - lastCurrent + 1) % UintRange

\* timeDelta := current - bt.lastCurrent (uint64; reached only when
\* current >= lastCurrent)
TimeDelta(current, lastCurrent) == (current - lastCurrent) % UintRange

\* Variant: the cap on timeDelta is missing.
CapTimeDeltaUncapped(timeDelta, bufferLen) == timeDelta

CapTimeDelta(timeDelta, bufferLen) ==
  IF timeDelta > bufferLen THEN bufferLen ELSE timeDelta

\* Variant: the index is not reduced modulo the buffer length.
SampleIdxUnwrapped(lastCurrent, i, bufferLen) == (lastCurrent + i) % UintRange

\* Variant: the loop starts one slot later, at lastCurrent + 1.
SampleIdxFromNext(lastCurrent, i, bufferLen) ==
  ((lastCurrent + 1 + i) % UintRange) % bufferLen

\* Variant: the arrays are read from their start, not as a circular buffer.
SampleIdxFromZero(lastCurrent, i, bufferLen) == i % bufferLen

\* t := bt.lastCurrent + i ; idx := int(t % bufferLen)
SampleIdx(lastCurrent, i, bufferLen) == ((lastCurrent + i) % UintRange) % bufferLen

NoDeltas == [downloadDelta |-> 0, uploadDelta |-> 0, energyDelta |-> 0,
             pingLatencyDelta |-> 0, pingDropDelta |-> 0, indices |-> <<>>]

\* idx is a valid index of each of the five slices (idx is never negative).
InRange(h, idx) ==
  /\ idx < Len(h.DownlinkThroughputBps)
  /\ idx < Len(h.UplinkThroughputBps)
  /\ idx < Len(h.PowerIn)
  /\ idx < Len(h.PopPingLatencyMs)
  /\ idx < Len(h.PopPingDropRate)

\* The loop has indexed a slice out of range: the Go runtime panics.
Panicked(h, indices) == \E k \in 1..Len(indices) : ~InRange(h, indices[k])

\* Variant: the upload sum is fed from the downlink array.
AccumulateCrossed(d, h, idx) ==
  [downloadDelta |-> d.downloadDelta + BitsToBytes(h.DownlinkThroughputBps[idx + 1]),
   uploadDelta |-> d.uploadDelta + BitsToBytes(h.DownlinkThroughputBps[idx + 1]),
   energyDelta |-> d.energyDelta + h.PowerIn[idx + 1],
   pingLatencyDelta |-> d.pingLatencyDelta + MsToSeconds(h.PopPingLatencyMs[idx + 1]),
   pingDropDelta |-> d.pingDropDelta + h.PopPingDropRate[idx + 1],
   indices |-> Append(d.indices, idx)]

\* One iteration of the integration loop for idx (Go slices are 0-based);
\* an index out of range ends the loop with a panic.
Accumulate(d, h, idx) ==
  IF ~InRange(h, idx) THEN [d EXCEPT !.indices = Append(@, idx)] ELSE
  [downloadDelta |-> d.downloadDelta + BitsToBytes(h.DownlinkThroughputBps[idx + 1]),
   uploadDelta |-> d.uploadDelta + BitsToBytes(h.UplinkThroughputBps[idx + 1]),
   energyDelta |-> d.energyDelta + h.PowerIn[idx + 1],
   pingLatencyDelta |-> d.pingLatencyDelta + MsToSeconds(h.PopPingLatencyMs[idx + 1]),
   pingDropDelta |-> d.pingDropDelta + h.PopPingDropRate[idx + 1],
   indices |-> Append(d.indices, idx)]

\* for i := uint64(0); i < timeDelta; i++ { ... }
RECURSIVE IntegrateLoop(_, _, _, _, _, _)
IntegrateLoop(h, lastCurrent, bufferLen, timeDelta, i, d) ==
  IF i >= timeDelta \/ Panicked(h, d.indices) THEN d
  ELSE IntegrateLoop(h, lastCurrent, bufferLen, timeDelta, i + 1,
                     Accumulate(d, h, SampleIdx(lastCurrent, i, bufferLen)))

\* Variant: the per-call sums overwrite the totals instead of adding to them.
AddDeltasOverwrite(b, d, timeDelta, current) ==
  [b EXCEPT !.downloadBytesTotal = d.downloadDelta,
            !.uploadBytesTotal = d.uploadDelta,
            !.energyJoulesTotal = d.energyDelta,
            !.pingLatencySecondsSum = d.pingLatencyDelta,
            !.pingLatencySampleCount = timeDelta,
            !.pingDropCount = d.pingDropDelta,
            !.lastCurrent = current]

\* Variant: lastCurrent advances by the number of samples integrated.
AddDeltasAdvancesByDelta(b, d, timeDelta, current) ==
  [b EXCEPT !.downloadBytesTotal = @ + d.downloadDelta,
            !.uploadBytesTotal = @ + d.uploadDelta,
            !.energyJoulesTotal = @ + d.energyDelta,
            !.pingLatencySecondsSum = @ + d.pingLatencyDelta,
            !.pingLatencySampleCount = @ + timeDelta,
            !.pingDropCount = @ + d.pingDropDelta,
            !.lastCurrent = @ + timeDelta]

\* Variant: only the samples whose ping was answered are counted.
AddDeltasCountsAnswered(b, d, timeDelta, current) ==
  [b EXCEPT !.downloadBytesTotal = @ + d.downloadDelta,
            !.uploadBytesTotal = @ + d.uploadDelta,
            !.energyJoulesTotal = @ + d.energyDelta,
            !.pingLatencySecondsSum = @ + d.pingLatencyDelta,
            !.pingLatencySampleCount = @ + timeDelta - d.pingDropDelta,
            !.pingDropCount = @ + d.pingDropDelta,
            !.lastCurrent = current]

\* The += block after the loop and the final bt.lastCurrent = current.
AddDeltas(b, d, timeDelta, current) ==
  [b EXCEPT !.downloadBytesTotal = @ + d.downloadDelta,
            !.uploadBytesTotal = @ + d.uploadDelta,
            !.energyJoulesTotal = @ + d.energyDelta,
            !.pingLatencySecondsSum = @ + d.pingLatencyDelta,
            !.pingLatencySampleCount = @ + timeDelta,
            !.pingDropCount = @ + d.pingDropDelta,
            !.lastCurrent = current]

\* Variant: the first run marks the tracker initialized but keeps lastCurrent.
FirstRunKeepsSequence(b, current) == [b EXCEPT !.initialized = TRUE]

\* if !bt.initialized { ... }
FirstRun(b, current) == [b EXCEPT !.lastCurrent = current, !.initialized = TRUE]

\* Variant: a counter reset starts the totals again from zero.
CounterResetZeroes(b, current) ==
  [b EXCEPT !.lastCurrent = current, !.downloadBytesTotal = 0,
            !.uploadBytesTotal = 0, !.energyJoulesTotal = 0,
            !.pingLatencySecondsSum = 0, !.pingLatencySampleCount = 0,
            !.pingDropCount = 0]

\* Variant: a counter reset puts the tracker back to uninitialized.
CounterResetUninitializes(b, current) ==
  [b EXCEPT !.lastCurrent = current, !.initialized = FALSE]

\* Variant: a counter reset starts the ping summary again.
CounterResetDropsPing(b, current) ==
  [b EXCEPT !.lastCurrent = current, !.pingLatencySecondsSum = 0,
            !.pingLatencySampleCount = 0]

\* Variant: a counter reset is detected but lastCurrent is not moved.
CounterResetKeepsSequence(b, current) == b

\* if current < bt.lastCurrent { ... } : totals are kept.
CounterReset(b, current) == [b EXCEPT !.lastCurrent = current]

\* Variant: the error is cleared only once the tracker is initialized.
ClearErrorWhenInitialized(b) ==
  IF b.initialized THEN [b EXCEPT !.lastError = "nil"] ELSE b

\* Variant: the error of an earlier fetch is left in place.
ClearErrorKeeps(b) == b

\* bt.lastError = nil
ClearError(b) == [b EXCEPT !.lastError = "nil"]

\* Variant: the fetch error is logged but not stored.
SetLastErrorDropped(b, err) == b

\* bt.lastError = err
SetLastError(b, err) == [b EXCEPT !.lastError = err]

\* bt.logger.Warn("Empty history arrays")
EmptyArraysLog == << <<"WARN", "Empty history arrays">> >>

\* Variant: mismatched lengths are logged as a warning.
LengthMismatchLogAsWarning == << <<"WARN", "Array length mismatch">> >>

\* bt.logger.Error("Array length mismatch", ...)
LengthMismatchLog == << <<"ERROR", "Array length mismatch">> >>

\* processHistory between Lock and the deferred Unlock: the new fields, the
\* records logged and the indices the loop read.
ProcessHistory(b0, h) ==
  LET b == ClearError(b0)
      arrayLen == ArrayLen(h)
      current == h.Current
  IN  IF arrayLen = 0
        THEN [bt |-> b, log |-> EmptyArraysLog, visited |-> <<>>]
      ELSE IF ~LengthsMatch(h)
        THEN [bt |-> b, log |-> LengthMismatchLog, visited |-> <<>>]
      ELSE IF ~b.initialized
        THEN [bt |-> FirstRun(b, current),
              log |-> << <<"INFO", "Bandwidth tracker initialized">> >>, visited |-> <<>>]
      ELSE IF current < b.lastCurrent
        THEN [bt |-> CounterReset(b, current),
              log |-> << <<"WARN", "Counter reset detected">> >>, visited |-> <<>>]
      ELSE LET timeDelta == TimeDelta(current, b.lastCurrent) IN
        IF timeDelta = 0
          THEN [bt |-> b, log |-> <<>>, visited |-> <<>>]
        ELSE LET capped == CapTimeDelta(timeDelta, arrayLen)
                 d == IntegrateLoop(h, b.lastCurrent, arrayLen, capped, 0, NoDeltas)
             IN  [bt |-> AddDeltas(b, d, capped, current),
                  log |-> (IF timeDelta > arrayLen
                             THEN << <<"WARN", "Time delta exceeds history buffer size">> >>
                             ELSE <<>>) \o << <<"DEBUG", "Metrics update">> >>,
                  visited |-> d.indices]

\* ------------------------------------------------- device model (glossary)
SampleIds == (1 - MaxLen)..MaxSeq

\* The sequence number of the device sample a snapshot with sequence cur and
\* length n holds in slot idx: the q in cur-n+1..cur with q mod n = idx.
DeviceSample(cur, n, idx) == cur - ((cur - idx) % n)

RECURSIVE CountSamples(_, _, _, _)
CountSamples(cnt, cur, n, idxs) ==
  IF idxs = <<>> THEN cnt
  ELSE LET q == DeviceSample(cur, n, Head(idxs))
       IN  CountSamples([cnt EXCEPT ![q] = @ + 1], cur, n, Tail(idxs))

NoneIntegrated == [q \in SampleIds |-> 0]

\* -------------------------------------------------------------- initial
NoOutput == [up |-> -1, download |-> -1, upload |-> -1, energy |-> -1,
             pingLatencySum |-> -1, pingSampleCount |-> -1, pingDrops |-> -1,
             gauges |-> <<>>, info |-> <<>>]

\* No call made yet in this tick; result is that of the GetHistory call.
NoCalls == [get |-> 0, update |-> 0, result |-> "none"]

Init ==
  /\ bt = NewBandwidthTracker
  /\ muWriter = FALSE
  /\ muReaders = {}
  /\ pollerPc = "idle"
  /\ history = NoHistory
  /\ ticks = 0
  /\ log = <<>>
  /\ visited = <<>>
  /\ scPc = [s \in Scrapers |-> "idle"]
  /\ out = [s \in Scrapers |-> NoOutput]
  /\ status = [s \in Scrapers |-> NoStatus]
  /\ statusCalls = [s \in Scrapers |-> 0]
  /\ held = {Totals(NewBandwidthTracker)}
  /\ integrated = NoneIntegrated
  /\ regressed = FALSE
  /\ overrun = FALSE
  /\ bufLen = {}
  /\ ctxDone = FALSE
  /\ stopCh = "open"
  /\ stoppedCh = "open"
  /\ stopOnce = FALSE
  /\ stopPc = [t \in Stoppers |-> "idle"]
  /\ closes = 0
  /\ lePc = "idle"
  /\ leOut = "none"
  /\ calls = NoCalls
  /\ before = {}

accVars == <<bt, held, integrated, regressed, overrun, bufLen, visited>>
readerVars == <<lePc, leOut>>
scrapeVars == <<scPc, out, status, statusCalls, readerVars, before>>
muVars == <<muWriter, muReaders>>
lifeVars == <<ctxDone, stopCh, stoppedCh, stopOnce, stopPc, closes>>

\* ----------------------------------------------------------- the poller
\* Variant: Start can be called again on a tracker whose loop has returned.
StartAgain ==
  /\ pollerPc \in {"idle", "stopped"}
  /\ pollerPc' = "select"
  /\ UNCHANGED <<accVars, scrapeVars, lifeVars, calls, muVars, history, ticks, log>>

\* go bandwidthTracker.Start(ctx): the goroutine reaches the select.
Start ==
  /\ pollerPc = "idle"
  /\ pollerPc' = "select"
  /\ UNCHANGED <<accVars, scrapeVars, lifeVars, calls, muVars, history, ticks, log>>

\* Variant: update() takes the write lock before it calls GetHistory.
TickFetchesLocked ==
  /\ pollerPc = "select"
  /\ ticks < MaxTicks
  /\ ~muWriter
  /\ muReaders = {}
  /\ muWriter' = TRUE
  /\ ticks' = ticks + 1
  /\ pollerPc' = "getHistory"
  /\ log' = <<>>
  /\ calls' = [get |-> 1, update |-> 0, result |-> "none"]
  /\ UNCHANGED <<accVars, scrapeVars, lifeVars, muReaders, history>>

\* case <-ticker.C: bt.update() begins with the GetHistory call.
Tick ==
  /\ pollerPc = "select"
  /\ ticks < MaxTicks
  /\ ticks' = ticks + 1
  /\ pollerPc' = "getHistory"
  /\ log' = <<>>
  /\ calls' = [get |-> 1, update |-> 0, result |-> "none"]
  /\ UNCHANGED <<accVars, scrapeVars, lifeVars, muVars, history>>

\* GetHistory returns a response.
GetHistoryOk ==
  /\ pollerPc = "getHistory"
  /\ \E h \in Histories : history' = h
  /\ pollerPc' = "processLock"
  /\ calls' = [calls EXCEPT !.result = "ok"]
  /\ UNCHANGED <<accVars, scrapeVars, lifeVars, muVars, ticks, log>>

\* GetHistory returns a response of a device with a buffer of MaxLen slots
\* that has just booted or is at sequence MaxSeq.
GetHistoryOkFew ==
  /\ pollerPc = "getHistory"
  /\ \E h \in FewHistories : history' = h
  /\ pollerPc' = "processLock"
  /\ calls' = [calls EXCEPT !.result = "ok"]
  /\ UNCHANGED <<accVars, scrapeVars, lifeVars, muVars, ticks, log>>

\* Variant: a failed GetHistory call is made again at once.
GetHistoryErrRetries ==
  /\ pollerPc = "getHistory"
  /\ calls.get < 2
  /\ calls' = [calls EXCEPT !.get = @ + 1, !.result = "err"]
  /\ UNCHANGED <<accVars, scrapeVars, lifeVars, muVars, pollerPc, history, ticks, log>>

\* GetHistory returns an error.
GetHistoryErr ==
  /\ pollerPc = "getHistory"
  /\ pollerPc' = "errLock"
  /\ calls' = [calls EXCEPT !.result = "err"]
  /\ UNCHANGED <<accVars, scrapeVars, lifeVars, muVars, history, ticks, log>>

\* update, err != nil: bt.mu.Lock()
ErrLock ==
  /\ pollerPc = "errLock"
  /\ ~muWriter /\ muReaders = {}
  /\ muWriter' = TRUE
  /\ pollerPc' = "errStore"
  /\ UNCHANGED <<accVars, scrapeVars, lifeVars, calls, muReaders, history, ticks, log>>

\* update, err != nil: bt.lastError = err; Unlock; Warn; return.
ErrStore ==
  /\ pollerPc = "errStore"
  /\ bt' = SetLastError(bt, "err")
  /\ muWriter' = FALSE
  /\ log' = << <<"WARN", "Failed to get history">> >>
  /\ pollerPc' = "select"
  /\ UNCHANGED <<held, integrated, regressed, overrun, bufLen, visited, scrapeVars, lifeVars, calls,
                 muReaders, history, ticks>>

\* processHistory: bt.mu.Lock()
ProcessLock ==
  /\ pollerPc = "processLock"
  /\ ~muWriter /\ muReaders = {}
  /\ muWriter' = TRUE
  /\ pollerPc' = "process"
  /\ UNCHANGED <<accVars, scrapeVars, lifeVars, calls, muReaders, history, ticks, log>>

\* processHistory: the body and the deferred Unlock.  A panic of the loop
\* unwinds through the deferred Unlock and ends the goroutine.
ProcessBody ==
  /\ pollerPc = "process"
  /\ \E r \in {ProcessHistory(bt, history)} :
     \E crashed \in {Panicked(history, r.visited)} :
     LET valid == ArrayLen(history) > 0 /\ LengthsMatch(history)
         isReset == valid /\ bt.initialized /\ history.Current < bt.lastCurrent
         lens == IF valid THEN bufLen \cup {ArrayLen(history)} ELSE bufLen
         tracked == ~(regressed \/ isReset) /\ Cardinality(lens) <= 1
         isOverrun == /\ valid /\ bt.initialized /\ ~isReset
                      /\ history.Current - bt.lastCurrent > ArrayLen(history)
     IN  /\ bt' = IF crashed THEN ClearError(bt) ELSE r.bt
         /\ log' = IF crashed THEN <<>> ELSE r.log
         /\ pollerPc' = IF crashed THEN "panicked" ELSE "select"
         /\ visited' = r.visited
         /\ held' = IF crashed THEN held ELSE held \cup {Totals(r.bt)}
         /\ regressed' = (regressed \/ isReset)
         /\ overrun' = (overrun \/ isOverrun)
         /\ bufLen' = lens
         /\ integrated' = IF crashed THEN integrated
                            ELSE IF tracked /\ valid
                            THEN CountSamples(integrated, history.Current,
                                              ArrayLen(history), r.visited)
                            ELSE IF tracked THEN integrated ELSE NoneIntegrated
  /\ muWriter' = FALSE
  /\ history' = NoHistory
  /\ calls' = [calls EXCEPT !.update = @ + 1]
  /\ UNCHANGED <<scrapeVars, lifeVars, muReaders, ticks>>

\* ----------------------------------------------------------- the scrapes
pollerVars == <<pollerPc, history, ticks, log, calls>>

\* Variant: the two throughput gauges carry each other's value.
GaugesSwapped(st) ==
  << <<"starlink_downlink_throughput_bps", st.UplinkThroughputBps>>,
     <<"starlink_uplink_throughput_bps", st.DownlinkThroughputBps>>,
     <<"starlink_pop_ping_latency_ms", st.PopPingLatencyMs>>,
     <<"starlink_uptime_seconds", st.DeviceState.UptimeS>>,
     <<"starlink_obstruction_fraction", st.ObstructionStats.FractionObstructed>>,
     <<"starlink_obstruction_valid_seconds", st.ObstructionStats.ValidS>>,
     <<"starlink_gps_satellites", st.GPSStats.GPSSats>>,
     <<"starlink_gps_valid", BoolToFloat(st.GPSStats.GPSValid)>>,
     <<"starlink_eth_speed_mbps", st.EthSpeedMbps>>,
     <<"starlink_snr_above_noise_floor", BoolToFloat(st.IsSnrAboveNoiseFloor)>> >>

\* The ten gauges Collect sends on its success path, in the order it sends
\* them, each read from the status response.
Gauges(st) ==
  << <<"starlink_downlink_throughput_bps", st.DownlinkThroughputBps>>,
     <<"starlink_uplink_throughput_bps", st.UplinkThroughputBps>>,
     <<"starlink_pop_ping_latency_ms", st.PopPingLatencyMs>>,
     <<"starlink_uptime_seconds", st.DeviceState.UptimeS>>,
     <<"starlink_obstruction_fraction", st.ObstructionStats.FractionObstructed>>,
     <<"starlink_obstruction_valid_seconds", st.ObstructionStats.ValidS>>,
     <<"starlink_gps_satellites", st.GPSStats.GPSSats>>,
     <<"starlink_gps_valid", BoolToFloat(st.GPSStats.GPSValid)>>,
     <<"starlink_eth_speed_mbps", st.EthSpeedMbps>>,
     <<"starlink_snr_above_noise_floor", BoolToFloat(st.IsSnrAboveNoiseFloor)>> >>

\* The starlink_info metric: value 1.0 and the four labels.
InfoMetric(st) ==
  [value |-> 1,
   id |-> st.DeviceInfo.ID,
   hardware_version |-> st.DeviceInfo.HardwareVersion,
   software_version |-> st.DeviceInfo.SoftwareVersion,
   country_code |-> st.DeviceInfo.CountryCode]

\* Variant: the error path falls through to the gauges.
AfterCountersAlwaysGauges(up) == "gauges"

\* Where Collect goes after the six counters: the error path returns, the
\* success path goes on with the gauges.
AfterCounters(up) == IF up = 1 THEN "gauges" ELSE "idle"

\* The six counter values among what a scrape has sent.
Counters(o) == <<o.download, o.upload, o.energy,
                o.pingLatencySum, o.pingSampleCount, o.pingDrops>>

\* The scrape whose predecessors are recorded.
Follower == "s2"

\* The scrapes whose Collect call has returned.
Returned == { r \in Scrapers : scPc[r] = "idle" /\ out[r].up >= 0 }

\* Collect is entered: c.client.GetStatus() is called.
CollectStart(s) ==
  /\ scPc[s] = "idle"
  /\ scPc' = [scPc EXCEPT ![s] = "getStatus"]
  /\ out' = [out EXCEPT ![s] = NoOutput]
  /\ status' = [status EXCEPT ![s] = NoStatus]
  /\ statusCalls' = [statusCalls EXCEPT ![s] = 1]
  /\ before' = IF s = Follower
                 THEN { Counters(out[r]) : r \in Returned \ {s} }
                 ELSE before
  /\ UNCHANGED <<accVars, muVars, pollerVars, lifeVars, readerVars>>

\* GetStatus succeeded: ch <- up = 1.
GetStatusOk(s) ==
  /\ scPc[s] = "getStatus"
  /\ \E st \in Statuses : status' = [status EXCEPT ![s] = st]
  /\ out' = [out EXCEPT ![s].up = 1]
  /\ scPc' = [scPc EXCEPT ![s] = "counters"]
  /\ UNCHANGED <<accVars, muVars, pollerVars, lifeVars, readerVars, before, statusCalls>>

\* GetStatus failed: ch <- up = 0.
GetStatusErr(s) ==
  /\ scPc[s] = "getStatus"
  /\ out' = [out EXCEPT ![s].up = 0]
  /\ scPc' = [scPc EXCEPT ![s] = "counters"]
  /\ UNCHANGED <<accVars, muVars, pollerVars, lifeVars, readerVars, before, status, statusCalls>>

\* Variant: the shared lock is granted while the writer is inside.
GetterRLockBarging(s) ==
  /\ scPc[s] \in {"counters", "energy", "ping"}
  /\ muReaders' = muReaders \cup {s}
  /\ scPc' = [scPc EXCEPT ![s] = CASE scPc[s] = "counters" -> "countersLocked"
                                   [] scPc[s] = "energy" -> "energyLocked"
                                   [] scPc[s] = "ping" -> "pingLocked"]
  /\ UNCHANGED <<accVars, muWriter, out, pollerVars, lifeVars, readerVars, before, status, statusCalls>>

\* bt.mu.RLock() of the getter the scrape is about to run.
GetterRLock(s) ==
  /\ scPc[s] \in {"counters", "energy", "ping"}
  /\ ~muWriter
  /\ muReaders' = muReaders \cup {s}
  /\ scPc' = [scPc EXCEPT ![s] = CASE scPc[s] = "counters" -> "countersLocked"
                                   [] scPc[s] = "energy" -> "energyLocked"
                                   [] scPc[s] = "ping" -> "pingLocked"]
  /\ UNCHANGED <<accVars, muWriter, out, pollerVars, lifeVars, readerVars, before, status, statusCalls>>

\* Variant: the getter hands the two totals over and starts them again
\* from zero.
GetCountersDraining(s) ==
  /\ scPc[s] = "countersLocked"
  /\ out' = [out EXCEPT ![s].download = bt.downloadBytesTotal,
                        ![s].upload = bt.uploadBytesTotal]
  /\ bt' = [bt EXCEPT !.downloadBytesTotal = 0, !.uploadBytesTotal = 0]
  /\ muReaders' = muReaders \ {s}
  /\ scPc' = [scPc EXCEPT ![s] = "energy"]
  /\ UNCHANGED <<held, integrated, regressed, overrun, bufLen, visited, muWriter,
                 pollerVars, lifeVars, readerVars, before, status, statusCalls>>

\* GetCounters returns (deferred RUnlock); both values are sent.
GetCounters(s) ==
  /\ scPc[s] = "countersLocked"
  /\ out' = [out EXCEPT ![s].download = bt.downloadBytesTotal,
                        ![s].upload = bt.uploadBytesTotal]
  /\ muReaders' = muReaders \ {s}
  /\ scPc' = [scPc EXCEPT ![s] = "energy"]
  /\ UNCHANGED <<accVars, muWriter, pollerVars, lifeVars, readerVars, before, status, statusCalls>>

\* GetEnergyJoules returns; the value is sent.
GetEnergyJoules(s) ==
  /\ scPc[s] = "energyLocked"
  /\ out' = [out EXCEPT ![s].energy = bt.energyJoulesTotal]
  /\ muReaders' = muReaders \ {s}
  /\ scPc' = [scPc EXCEPT ![s] = "ping"]
  /\ UNCHANGED <<accVars, muWriter, pollerVars, lifeVars, readerVars, before, status, statusCalls>>

\* GetPingMetrics returns; the three values are sent.  On the error path
\* Collect returns here.
GetPingMetrics(s) ==
  /\ scPc[s] = "pingLocked"
  /\ out' = [out EXCEPT ![s].pingLatencySum = bt.pingLatencySecondsSum,
                        ![s].pingSampleCount = bt.pingLatencySampleCount,
                        ![s].pingDrops = bt.pingDropCount]
  /\ muReaders' = muReaders \ {s}
  /\ scPc' = [scPc EXCEPT ![s] = AfterCounters(out[s].up)]
  /\ UNCHANGED <<accVars, muWriter, pollerVars, lifeVars, readerVars, before, status, statusCalls>>

\* Success path: the gauges of the status response and the info metric.
EmitGauges(s) ==
  /\ scPc[s] = "gauges"
  /\ out' = [out EXCEPT ![s].gauges = Gauges(status[s]),
                        ![s].info = <<InfoMetric(status[s])>>]
  /\ scPc' = [scPc EXCEPT ![s] = "idle"]
  /\ UNCHANGED <<accVars, muVars, pollerVars, lifeVars, readerVars, before, status, statusCalls>>

\* One step of the Collect call of scrape s.
Scrape(s) ==
  \/ CollectStart(s)
  \/ GetStatusOk(s)
  \/ GetStatusErr(s)
  \/ GetterRLock(s)
  \/ GetCounters(s)
  \/ GetEnergyJoules(s)
  \/ GetPingMetrics(s)
  \/ EmitGauges(s)

\* The name under which the caller of GetLastError holds bt.mu.
ErrReader == "e1"

\* GetLastError: bt.mu.RLock()
GetLastErrorRLock ==
  /\ lePc = "idle"
  /\ ~muWriter
  /\ muReaders' = muReaders \cup {ErrReader}
  /\ lePc' = "locked"
  /\ UNCHANGED <<accVars, muWriter, pollerVars, lifeVars, scPc, out, status,
                 statusCalls, leOut, before>>

\* GetLastError returns bt.lastError (deferred RUnlock).
GetLastError ==
  /\ lePc = "locked"
  /\ leOut' = bt.lastError
  /\ muReaders' = muReaders \ {ErrReader}
  /\ lePc' = "idle"
  /\ UNCHANGED <<accVars, muWriter, pollerVars, lifeVars, scPc, out, status,
                 statusCalls, before>>

\* Scrapes one after the other.
Collect == \E s \in OneScraper : Scrape(s)

\* Scrapes that may overlap.
CollectConcurrently == \E s \in Scrapers : Scrape(s)

\* ---------------------------------------------------------- shutdown
\* The positions of the goroutine that runs Start: before the call, the six
\* positions inside the loop, after an exit case was taken, after return,
\* after a panic.
LoopPcs == {"idle", "select", "getHistory", "processLock", "process",
            "errLock", "errStore", "stopping", "stopped", "panicked"}

\* The lifecycle state a position belongs to.
LoopState(pc) ==
  CASE pc = "idle" -> "Idle"
    [] pc = "stopping" -> "Stopping"
    [] pc \in {"stopped", "panicked"} -> "Stopped"
    [] OTHER -> "Running"

\* Variant: the function handed to stopOnce.Do runs on every call.
OnceAlwaysFires(done) == TRUE

\* sync.Once.Do runs its function only on the first call.
OnceFires(done) == ~done

\* Variant: the loop has no case for stopCh.
StopChNeverReady(ch) == FALSE

\* case <-bt.stopCh: nothing is ever sent, the receive is ready once closed.
StopChReady(ch) == ch = "closed"

\* Variant: Stop does not wait for the loop.
StoppedChAlwaysReady(ch) == TRUE

\* <-bt.stoppedCh
StoppedChReady(ch) == ch = "closed"

\* main (or the HTTP server's failure path) calls cancel().
Cancel ==
  /\ ~ctxDone
  /\ ctxDone' = TRUE
  /\ UNCHANGED <<accVars, scrapeVars, muVars, pollerVars,
                 stopCh, stoppedCh, stopOnce, stopPc, closes>>

\* case <-ctx.Done(): the loop is left.
ExitOnCtx ==
  /\ pollerPc = "select"
  /\ ctxDone
  /\ pollerPc' = "stopping"
  /\ UNCHANGED <<accVars, scrapeVars, muVars, history, ticks, log, calls, lifeVars>>

\* case <-bt.stopCh: the loop is left.
ExitOnStop ==
  /\ pollerPc = "select"
  /\ StopChReady(stopCh)
  /\ pollerPc' = "stopping"
  /\ UNCHANGED <<accVars, scrapeVars, muVars, history, ticks, log, calls, lifeVars>>

\* Variant: Start returns without closing stoppedCh.
StartReturnsSilently ==
  /\ pollerPc = "stopping"
  /\ pollerPc' = "stopped"
  /\ UNCHANGED <<accVars, scrapeVars, muVars, history, ticks, log, calls, lifeVars>>

\* Info("Bandwidth tracker stopping"); return: the deferred
\* close(bt.stoppedCh) and ticker.Stop() run.
StartReturns ==
  /\ pollerPc = "stopping"
  /\ pollerPc' = "stopped"
  /\ stoppedCh' = "closed"
  /\ UNCHANGED <<accVars, scrapeVars, muVars, history, ticks, log, calls,
                 ctxDone, stopCh, stopOnce, stopPc, closes>>

\* Stop is called.
StopCall(t) ==
  /\ stopPc[t] = "idle"
  /\ stopPc' = [stopPc EXCEPT ![t] = "once"]
  /\ UNCHANGED <<accVars, scrapeVars, muVars, pollerVars,
                 ctxDone, stopCh, stoppedCh, stopOnce, closes>>

\* bt.stopOnce.Do(func() { close(bt.stopCh) })
OnceDo(t) ==
  /\ stopPc[t] = "once"
  /\ IF OnceFires(stopOnce)
       THEN /\ stopOnce' = TRUE
            /\ stopCh' = "closed"
            /\ closes' = closes + 1
       ELSE UNCHANGED <<stopOnce, stopCh, closes>>
  /\ stopPc' = [stopPc EXCEPT ![t] = "wait"]
  /\ UNCHANGED <<accVars, scrapeVars, muVars, pollerVars, ctxDone, stoppedCh>>

\* <-bt.stoppedCh ; Stop returns.
StopReturn(t) ==
  /\ stopPc[t] = "wait"
  /\ StoppedChReady(stoppedCh)
  /\ stopPc' = [stopPc EXCEPT ![t] = "returned"]
  /\ UNCHANGED <<accVars, scrapeVars, muVars, pollerVars,
                 ctxDone, stopCh, stoppedCh, stopOnce, closes>>

Stop == \E t \in Stoppers : StopCall(t) \/ OnceDo(t) \/ StopReturn(t)

Shutdown ==
  \/ Cancel
  \/ ExitOnCtx
  \/ ExitOnStop
  \/ StartReturns
  \/ Stop

\* ------------------------------------------------------- specification
\* The background goroutine: Start and the update() calls it makes.
Poller ==
  \/ Start
  \/ Tick
  \/ GetHistoryOk
  \/ GetHistoryErr
  \/ ErrLock
  \/ ErrStore
  \/ ProcessLock
  \/ ProcessBody

Next ==
  \/ Poller
  \/ Collect

\* The whole exporter: the poller and the scrapes, interleaved.
Spec == Init /\ [][Next]_vars

\* The write path alone: the poller driving the accumulator, no scrape.
SpecPoller == Init /\ [][Poller]_vars

\* The poller against a device that answers with FewHistories.
PollerFew ==
  \/ Start
  \/ Tick
  \/ GetHistoryOkFew
  \/ GetHistoryErr
  \/ ErrLock
  \/ ErrStore
  \/ ProcessLock
  \/ ProcessBody

Lifecycle ==
  \/ PollerFew
  \/ Shutdown

\* The poller's life: Start, the ticks, cancellation and the Stop calls.
SpecLifecycle == Init /\ [][Lifecycle]_vars

\* The steps the goroutine of Start takes by itself once it can: at most
\* one of them is possible at a time.
LoopStep ==
  \/ Start
  \/ GetHistoryOkFew
  \/ GetHistoryErr
  \/ ErrLock
  \/ ErrStore
  \/ ProcessLock
  \/ ProcessBody
  \/ StartReturns

\* The steps of a Stop call after it was made.
StopStep(t) == OnceDo(t) \/ StopReturn(t)

\* The goroutines get to run and every GetHistory call returns (weak
\* fairness of each goroutine's own steps); the select, which picks among
\* its ready cases at random, does not pass over a ready exit case for ever
\* (strong fairness of the exit).
LifecycleFairness ==
  /\ WF_vars(LoopStep)
  /\ SF_vars(ExitOnCtx \/ ExitOnStop)
  /\ \A t \in Stoppers : WF_vars(StopStep(t))

FairLifecycle == SpecLifecycle /\ LifecycleFairness

Scraping ==
  \/ PollerFew
  \/ CollectConcurrently

\* The read path: overlapping scrapes while the poller updates.
SpecScrape == Init /\ [][Scraping]_vars

Locking ==
  \/ PollerFew
  \/ Collect
  \/ GetLastErrorRLock
  \/ GetLastError

\* Everything that takes bt.mu: the poller, a scrape and a GetLastError
\* call.
SpecLocking == Init /\ [][Locking]_vars

TypeOK ==
  /\ bt.lastCurrent \in Seqs
  /\ bt.initialized \in BOOLEAN
  /\ bt.lastError \in {"nil", "err"}
  /\ \A i \in 1..6 : Totals(bt)[i] \in Nat
  /\ muWriter \in BOOLEAN
  /\ muReaders \subseteq Scrapers \cup {ErrReader}
  /\ ticks \in 0..MaxTicks
  /\ ctxDone \in BOOLEAN
  /\ stopCh \in {"open", "closed"}
  /\ stoppedCh \in {"open", "closed"}
  /\ stopOnce \in BOOLEAN
  /\ stopPc \in [Stoppers -> {"idle", "once", "wait", "returned"}]
  /\ closes \in 0..Cardinality(Stoppers)
  /\ \A s \in Scrapers : status[s] \in Statuses \cup {NoStatus}
  /\ statusCalls \in [Scrapers -> 0..1]
  /\ lePc \in {"idle", "locked"}
  /\ leOut \in {"none", "nil", "err"}
  /\ calls \in [get : 0..1, update : 0..1, result : {"none", "ok", "err"}]
  /\ pollerPc \in LoopPcs
  /\ Cardinality(before) < Cardinality(Scrapers)

\* ================================================================ claims
\* The step in which processHistory runs on the fetched history.
ProcessStep == pollerPc = "process" /\ pollerPc' = "select"

ValidHistory(h) == ArrayLen(h) > 0 /\ LengthsMatch(h)

\* The poller is back at the select after an update() call that logged l.
UpdateLogged(l) == pollerPc = "select" /\ ticks > 0 /\ log = l

ZeroTotals == <<0, 0, 0, 0, 0, 0>>

RECURSIVE SumAt(_, _)
SumAt(arr, idxs) ==
  IF idxs = <<>> THEN 0 ELSE arr[Head(idxs) + 1] + SumAt(arr, Tail(idxs))

\* k consecutive slots of a buffer of length n, the first one holding
\* sequence position first.
Window(first, k, n) == [i \in 1..k |-> (first + i - 1) % n]

\* C1: for an initialized accumulator with lastSequence = s and a valid
\* snapshot of length N with sequence s+k, 0 < k <= N, Update reads exactly
\* the slots (s+1) mod N, ..., (s+k) mod N, in that order.
C1_VisitsFromNext ==
  [][(/\ ProcessStep
      /\ ValidHistory(history)
      /\ bt.initialized
      /\ history.Current > bt.lastCurrent
      /\ history.Current - bt.lastCurrent <= ArrayLen(history))
     => visited' = Window(bt.lastCurrent + 1, history.Current - bt.lastCurrent,
                          ArrayLen(history))]_vars

\* C3: none of the six cumulative totals ever decreases, whatever step is
\* taken (all samples being non-negative).
C3_TotalsMonotone ==
  [][\A i \in 1..6 : Totals(bt')[i] >= Totals(bt)[i]]_vars

\* C3 witness: a counter reset has been processed with non-zero totals.
C3_Witness ==
  /\ UpdateLogged(<< <<"WARN", "Counter reset detected">> >>)
  /\ bt.downloadBytesTotal > 0
  /\ bt.pingLatencySampleCount > 0

\* C5: the first Update with a valid snapshot on an uninitialized
\* accumulator integrates nothing: the six totals stay zero, lastCurrent
\* becomes the snapshot's sequence and initialized becomes true.
C5_FirstUpdate ==
  [][(ProcessStep /\ ValidHistory(history) /\ ~bt.initialized)
     => /\ Totals(bt') = ZeroTotals
        /\ visited' = <<>>
        /\ bt'.lastCurrent = history.Current
        /\ bt'.initialized]_vars

\* C5 witness: the first valid snapshot, with a non-zero sequence, has just
\* been processed.
C5_Witness ==
  /\ UpdateLogged(<< <<"INFO", "Bandwidth tracker initialized">> >>)
  /\ bt.initialized
  /\ bt.lastCurrent > 0

\* What one scrape has sent for the six counters.
Emitted(s) == <<out[s].download, out[s].upload, out[s].energy,
                out[s].pingLatencySum, out[s].pingSampleCount, out[s].pingDrops>>

\* C2: the six counter values one scrape reads, Updates running
\* concurrently, all reflect one update boundary: the accumulator held
\* exactly those six values at some point.
C2_ScrapeNotTorn ==
  \A s \in Scrapers : out[s].pingSampleCount >= 0 => Emitted(s) \in held

\* C4: with the glossary's device model (sample q in slot q mod N, newest
\* slot cur mod N) and sequences that never regress, every device sample is
\* integrated at most once, also after an update with delta >= N.
C4_AtMostOnce ==
  (~regressed /\ Cardinality(bufLen) <= 1) => \A q \in SampleIds : integrated[q] <= 1

\* C6: on an initialized accumulator an Update whose sequence equals
\* lastCurrent changes none of the six totals, nor lastCurrent, nor
\* initialized.
C6_RepeatedSequence ==
  [][(/\ ProcessStep
      /\ ValidHistory(history)
      /\ bt.initialized
      /\ history.Current = bt.lastCurrent)
     => /\ Totals(bt') = Totals(bt)
        /\ visited' = <<>>
        /\ bt'.lastCurrent = bt.lastCurrent
        /\ bt'.initialized]_vars

\* C6 witness: an update that found no new data has completed on an
\* accumulator whose totals are non-zero.
C6_Witness ==
  /\ UpdateLogged(<<>>)
  /\ bt.initialized
  /\ bt.lastError = "nil"
  /\ bt.downloadBytesTotal > 0

\* C7: an Update whose sequence exceeds lastCurrent by more than N reads
\* each slot 0..N-1 exactly once, adds exactly N to the ping sample count
\* and sets lastCurrent to the snapshot's sequence.
C7_OverrunCap ==
  [][(/\ ProcessStep
      /\ ValidHistory(history)
      /\ bt.initialized
      /\ history.Current - bt.lastCurrent > ArrayLen(history))
     => /\ Len(visited') = ArrayLen(history)
        /\ \A j \in 0..(ArrayLen(history) - 1) :
             Cardinality({i \in 1..Len(visited') : visited'[i] = j}) = 1
        /\ bt'.pingLatencySampleCount = bt.pingLatencySampleCount + ArrayLen(history)
        /\ bt'.lastCurrent = history.Current]_vars

\* C7 witness: an overrun of a buffer of more than one slot has been
\* integrated.
C7_Witness ==
  /\ UpdateLogged(<< <<"WARN", "Time delta exceeds history buffer size">>,
                     <<"DEBUG", "Metrics update">> >>)
  /\ Len(visited) > 1
  /\ bt.lastCurrent = MaxSeq

\* C8: an Update whose sequence is below lastCurrent leaves the six totals
\* unchanged, reads no sample and sets lastCurrent to the lower sequence.
C8_ResetTolerance ==
  [][(/\ ProcessStep
      /\ ValidHistory(history)
      /\ bt.initialized
      /\ history.Current < bt.lastCurrent)
     => /\ Totals(bt') = Totals(bt)
        /\ visited' = <<>>
        /\ bt'.lastCurrent = history.Current]_vars

\* C8 witness: a counter reset to sequence 0 has been processed after
\* samples were integrated.
C8_Witness ==
  /\ UpdateLogged(<< <<"WARN", "Counter reset detected">> >>)
  /\ regressed
  /\ bt.lastCurrent = 0
  /\ bt.energyJoulesTotal > 0

\* The contribution of the window an integrating Update reads, from the
\* snapshot and the previous sequence alone.
Contribution(h, lastCurrent) ==
  LET n == ArrayLen(h)
      k == IF h.Current - lastCurrent > n THEN n ELSE h.Current - lastCurrent
      w == Window(lastCurrent, k, n)
  IN  <<SumAt(h.DownlinkThroughputBps, w) \div BitsPerByte,
        SumAt(h.UplinkThroughputBps, w) \div BitsPerByte,
        SumAt(h.PowerIn, w),
        SumAt(h.PopPingLatencyMs, w) \div MsPerSecond,
        k,
        SumAt(h.PopPingDropRate, w)>>

\* C9: each of the six totals after an integrating Update is the total
\* before it plus the contribution of that Update's window alone.
C9_Additive ==
  [][(/\ ProcessStep
      /\ ValidHistory(history)
      /\ bt.initialized
      /\ history.Current > bt.lastCurrent)
     => \A i \in 1..6 :
          Totals(bt')[i] = Totals(bt)[i] + Contribution(history, bt.lastCurrent)[i]]_vars

\* C9 witness: a second integrating Update has completed, on totals that
\* were already non-zero.
C9_Witness ==
  /\ UpdateLogged(<< <<"DEBUG", "Metrics update">> >>)
  /\ Cardinality(held) >= 3

OneNonZeroLength(h) ==
  /\ Len(h.DownlinkThroughputBps) > 0
  /\ Cardinality({Len(h.DownlinkThroughputBps), Len(h.UplinkThroughputBps),
                  Len(h.PowerIn), Len(h.PopPingLatencyMs),
                  Len(h.PopPingDropRate)}) = 1

\* C11: an Update whose five arrays are empty or not all of one length
\* changes none of the six totals and leaves lastCurrent and initialized
\* as they were, in every accumulator state.
C11_ValidationDiscards ==
  [][(ProcessStep /\ ~OneNonZeroLength(history))
     => /\ Totals(bt') = Totals(bt)
        /\ visited' = <<>>
        /\ bt'.lastCurrent = bt.lastCurrent
        /\ bt'.initialized = bt.initialized]_vars

\* C11 witness: a history with mismatched arrays has been rejected by an
\* accumulator that was still uninitialized.
C11_Witness ==
  /\ UpdateLogged(<< <<"ERROR", "Array length mismatch">> >>)
  /\ ~bt.initialized

\* C12 (as stated): after an Update whose arrays are empty or mismatched,
\* lastError is non-null.
C12_AsStated ==
  [][(ProcessStep /\ ~ValidHistory(history)) => bt'.lastError # "nil"]_vars

\* C12 (amended): an Update whose arrays are empty or mismatched records the
\* failure in the log only (a warning for empty arrays, an error for
\* mismatched ones); lastError is null afterwards, the error of an earlier
\* fetch included.
C12_ValidationLoggedOnly ==
  [][(ProcessStep /\ ~ValidHistory(history))
     => /\ bt'.lastError = "nil"
        /\ log' = IF ArrayLen(history) = 0
                    THEN << <<"WARN", "Empty history arrays">> >>
                    ELSE << <<"ERROR", "Array length mismatch">> >>]_vars

\* C12 witness: empty arrays have been rejected on a tick after the first
\* and lastError is null.
C12_Witness ==
  /\ UpdateLogged(<< <<"WARN", "Empty history arrays">> >>)
  /\ ticks >= 2
  /\ bt.lastError = "nil"

\* C13: when GetHistory fails, lastError is set to the error, the six
\* totals, lastCurrent and initialized are unchanged, processHistory is not
\* run, and the poller is back at its select, still running.
C13_FetchFailure ==
  [][(pollerPc \in {"errLock", "errStore"})
     => /\ Totals(bt') = Totals(bt)
        /\ bt'.lastCurrent = bt.lastCurrent
        /\ bt'.initialized = bt.initialized
        /\ visited' = visited
        /\ held' = held
        /\ pollerPc' \in {"errLock", "errStore", "select"}
        /\ (pollerPc' = "select" => bt'.lastError = "err")]_vars

\* C13 witness: the tick after a failed fetch has started, the error of the
\* failed fetch still stored, on an initialized accumulator.
C13_Witness ==
  /\ pollerPc = "getHistory"
  /\ bt.lastError = "err"
  /\ bt.initialized
  /\ bt.lastCurrent > 0

\* Some Stop call has returned.
StopReturned == \E t \in Stoppers : stopPc[t] = "returned"

\* A shutdown signal has been raised: the context is cancelled or stopCh is
\* closed.
ShutdownSignalled == ctxDone \/ stopCh = "closed"

\* C14: Stop is idempotent: however many Stop calls are made, one after the
\* other or overlapping, close(stopCh) is executed at most once, every call
\* that is past its stopOnce.Do finds stopCh closed by exactly one close, and
\* a call never fails on a second close.
C14_StopIdempotent ==
  /\ closes <= 1
  /\ \A t \in Stoppers :
       stopPc[t] \in {"wait", "returned"} => (closes = 1 /\ stopCh = "closed")

\* Both Stop calls have returned after one close of stopCh.
C14_Witness ==
  /\ \A t \in Stoppers : stopPc[t] = "returned"
  /\ closes = 1
  /\ ~ctxDone

\* C15: once any Stop call has returned, the poller loop has exited: no
\* GetHistory call is started or in flight, no update holds the lock, and
\* the loop can take no further step.
C15_StopAfterExit ==
  StopReturned => (pollerPc = "stopped" /\ stoppedCh = "closed" /\ ~muWriter)

\* A Stop call has returned from a poller that had integrated samples.
C15_Witness ==
  /\ StopReturned
  /\ ~ctxDone
  /\ bt.pingLatencySampleCount > 0

\* C16: once a shutdown signal is raised the loop eventually exits, and the
\* loop never exits unless a shutdown signal has been raised, whatever the
\* GetHistory calls returned.
C16_Terminates ==
  /\ ShutdownSignalled ~> (pollerPc = "stopped")
  /\ [](pollerPc = "stopped" => ShutdownSignalled)

\* The loop has exited on stopCh alone, after a failed fetch.
C16_Witness ==
  /\ pollerPc = "stopped"
  /\ ~ctxDone
  /\ stopCh = "closed"
  /\ bt.lastError = "err"

\* The values total number i has held at the update boundaries so far.
HeldField(i) == { h[i] : h \in held }

\* The scrape s has returned from Collect after sending up = u.
ScrapeDone(s, u) == scPc[s] = "idle" /\ out[s].up = u

\* The values scrape s has sent for the gauge called name.
Sent(s, name) ==
  { out[s].gauges[i][2] :
      i \in { j \in 1..Len(out[s].gauges) : out[s].gauges[j][1] = name } }

\* C17: a scrape whose GetStatus failed has sent up = 0 and the six
\* counters, each with a value the accumulator held, and has sent no gauge
\* and no info metric.
C17_FailedScrape ==
  \A s \in Scrapers :
    ScrapeDone(s, 0) =>
      /\ \A i \in 1..6 : Emitted(s)[i] \in HeldField(i)
      /\ out[s].gauges = <<>>
      /\ out[s].info = <<>>

\* A failed scrape has returned non-zero counters.
C17_Witness ==
  \E s \in Scrapers :
    /\ ScrapeDone(s, 0)
    /\ out[s].download > 0
    /\ out[s].pingSampleCount > 0

\* C18: a scrape calls GetStatus once; when the call succeeded the scrape
\* has sent up = 1, the six counters, each of the ten gauges once with the
\* value of its field in the one status response the call returned (the two
\* flags as 0 or 1), and one info metric of value 1 labelled with the id,
\* hardware version, software version and country code of that response.
C18_SuccessfulScrape ==
  \A s \in Scrapers :
    /\ scPc[s] # "idle" => statusCalls[s] = 1
    /\ ScrapeDone(s, 1) =>
         /\ statusCalls[s] = 1
         /\ status[s] \in Statuses
         /\ \A i \in 1..6 : Emitted(s)[i] \in HeldField(i)
         /\ Len(out[s].gauges) = 10
         /\ Sent(s, "starlink_downlink_throughput_bps") = {status[s].DownlinkThroughputBps}
         /\ Sent(s, "starlink_uplink_throughput_bps") = {status[s].UplinkThroughputBps}
         /\ Sent(s, "starlink_pop_ping_latency_ms") = {status[s].PopPingLatencyMs}
         /\ Sent(s, "starlink_uptime_seconds") = {status[s].DeviceState.UptimeS}
         /\ Sent(s, "starlink_obstruction_fraction") = {status[s].ObstructionStats.FractionObstructed}
         /\ Sent(s, "starlink_obstruction_valid_seconds") = {status[s].ObstructionStats.ValidS}
         /\ Sent(s, "starlink_gps_satellites") = {status[s].GPSStats.GPSSats}
         /\ Sent(s, "starlink_gps_valid") = {IF status[s].GPSStats.GPSValid THEN 1 ELSE 0}
         /\ Sent(s, "starlink_eth_speed_mbps") = {status[s].EthSpeedMbps}
         /\ Sent(s, "starlink_snr_above_noise_floor") = {IF status[s].IsSnrAboveNoiseFloor THEN 1 ELSE 0}
         /\ out[s].info = << [value |-> 1,
                              id |-> status[s].DeviceInfo.ID,
                              hardware_version |-> status[s].DeviceInfo.HardwareVersion,
                              software_version |-> status[s].DeviceInfo.SoftwareVersion,
                              country_code |-> status[s].DeviceInfo.CountryCode] >>

\* Two successful scrapes have returned, each with its own status response,
\* one of them with non-zero counters.
C18_Witness ==
  /\ ScrapeDone("s1", 1)
  /\ ScrapeDone("s2", 1)
  /\ status["s1"].GPSStats.GPSValid
  /\ status["s2"].IsSnrAboveNoiseFloor
  /\ out["s1"].download > 0

\* C19: no step of a scrape, on the success or the failure path, alone or
\* overlapping another scrape or an update, changes the six totals,
\* lastCurrent, initialized or lastError.
C19_ScrapesReadOnly ==
  [][(\E s \in Scrapers : scPc'[s] # scPc[s]) => bt' = bt]_vars

\* A successful and a failed scrape have returned and the accumulator
\* holds non-zero totals and the error of the poller's last fetch.
C19_Witness ==
  /\ ScrapeDone("s1", 1)
  /\ ScrapeDone("s2", 0)
  /\ out["s1"].pingSampleCount >= 0
  /\ out["s2"].pingSampleCount >= 0
  /\ bt.downloadBytesTotal > 0
  /\ bt.lastError = "err"

\* C20: while the poller's GetHistory call is in flight the poller does not
\* hold the write lock, and while a scrape's GetStatus call is in flight
\* that scrape does not hold the read lock.
C20_NoLockAcrossGet ==
  /\ pollerPc = "getHistory" => ~muWriter
  /\ \A s \in Scrapers : scPc[s] = "getStatus" => s \notin muReaders

\* Both kinds of call are in flight while another scrape holds the read
\* lock.
C20_Witness ==
  /\ pollerPc = "getHistory"
  /\ scPc["s1"] = "getStatus"
  /\ "s2" \in muReaders

\* The scrape s takes a step in which it sends counter values.
CounterRead(s) == scPc[s] # "idle" /\ Emitted(s)' # Emitted(s)

\* C21: the accumulator's fields change only in steps taken with bt.mu held
\* exclusively (by the poller, the only writer), the totals and lastError
\* are read only by a caller holding bt.mu shared, and no reader is inside
\* while the writer is; several readers may be inside together.
C21_LockDiscipline ==
  /\ [](muWriter => muReaders = {})
  /\ [][/\ bt' # bt => (muWriter /\ pollerPc \in {"errStore", "process"})
        /\ \A s \in Scrapers : CounterRead(s) => (s \in muReaders /\ ~muWriter)
        /\ leOut' # leOut => (ErrReader \in muReaders /\ ~muWriter)]_vars

\* A scrape and a GetLastError call are inside together, the poller waits
\* for the exclusive lock, and both kinds of read have returned data
\* before.
C21_Witness ==
  /\ muReaders = {"s1", ErrReader}
  /\ pollerPc = "processLock"
  /\ leOut = "nil"
  /\ out["s1"].download > 0

\* C22: every tick makes one GetHistory call, followed by one
\* processHistory call when it succeeded and by none when it failed; a
\* failed call is not made again within the tick, and a tick begins only
\* when the calls of the tick before have returned.
C22_OneGetPerTick ==
  /\ [](calls.get <= 1 /\ calls.update <= 1)
  /\ []((ticks > 0 /\ pollerPc = "select")
          => /\ calls.get = 1
             /\ calls.result \in {"ok", "err"}
             /\ calls.update = IF calls.result = "ok" THEN 1 ELSE 0)
  /\ [][/\ ticks' # ticks
             => (pollerPc = "select" /\ ticks' = ticks + 1
                 /\ calls'.get = 1 /\ calls'.update = 0)
        /\ calls'.get # calls.get => ticks' # ticks
        /\ calls'.update # calls.update
             => (ticks' # ticks \/ (calls.result = "ok" /\ calls.update = 0))]_vars

\* The last tick's fetch failed after two ticks whose fetch succeeded, the
\* second of them integrating samples.
C22_Witness ==
  /\ ticks = MaxTicks
  /\ pollerPc = "select"
  /\ calls = [get |-> 1, update |-> 0, result |-> "err"]
  /\ bt.downloadBytesTotal > 0

\* The number of samples an Update of h on an initialized accumulator with
\* sequence lastCurrent integrates: min(cur - lastCurrent, N) when the
\* sequence has advanced, otherwise none.
SamplesDue(h, lastCurrent) ==
  IF h.Current <= lastCurrent THEN 0
  ELSE IF h.Current - lastCurrent > ArrayLen(h) THEN ArrayLen(h)
  ELSE h.Current - lastCurrent

\* C23: the ping sample count grows in every step by the number of indices
\* the step visits: by min(cur - lastCurrent, N) in an integrating Update,
\* whatever the samples are, and by 0 in every other step (first update,
\* repeated sequence, regression, rejected snapshot, fetch failure).
C23_SampleCount ==
  [][/\ bt'.pingLatencySampleCount - bt.pingLatencySampleCount =
          IF ProcessStep /\ OneNonZeroLength(history) /\ bt.initialized
            THEN SamplesDue(history, bt.lastCurrent)
            ELSE 0
     /\ ProcessStep
          => bt'.pingLatencySampleCount - bt.pingLatencySampleCount = Len(visited')]_vars

\* Two integrating Updates have completed, the second a capped overrun of
\* the pattern whose samples include a dropped ping.
C23_Witness ==
  /\ UpdateLogged(<< <<"WARN", "Time delta exceeds history buffer size">>,
                     <<"DEBUG", "Metrics update">> >>)
  /\ Cardinality(held) >= 3
  /\ bt.pingDropCount > 0
  /\ bt.pingLatencySampleCount = Len(visited) + 1

\* The place of a lifecycle state in the order Idle, Running, Stopping,
\* Stopped.
Rank(st) ==
  CASE st = "Idle" -> 0
    [] st = "Running" -> 1
    [] st = "Stopping" -> 2
    [] st = "Stopped" -> 3

\* C24: the loop passes through Idle, Running, Stopping, Stopped in that
\* order, one state at a time and never back, Stopped is final, and a
\* GetHistory call is begun and the accumulator is changed by the poller
\* only in steps taken from Running.
C24_LifecycleOrder ==
  [][/\ Rank(LoopState(pollerPc')) - Rank(LoopState(pollerPc)) \in {0, 1}
     /\ pollerPc = "stopped" => pollerPc' = "stopped"
     /\ (ticks' # ticks \/ calls' # calls \/ bt' # bt)
          => LoopState(pollerPc) = "Running"]_vars

\* The loop has gone through all four states, after MaxTicks ticks that
\* integrated samples, and a Stop call has returned.
C24_Witness ==
  /\ pollerPc = "stopped"
  /\ ticks = MaxTicks
  /\ bt.pingLatencySampleCount > 0
  /\ stopPc["t1"] = "returned"

\* C25: after every Update whose snapshot passes validation lastCurrent is
\* the snapshot's sequence, in every branch (first update, repeated
\* sequence, regression, integration, capped overrun).
C25_SequenceFollows ==
  [][(ProcessStep /\ OneNonZeroLength(history))
     => bt'.lastCurrent = history.Current]_vars

\* An overrun of a one-slot buffer has been integrated: lastCurrent is
\* MaxSeq, not the sequence before plus the buffer length.
C25_Witness ==
  /\ UpdateLogged(<< <<"WARN", "Time delta exceeds history buffer size">>,
                     <<"DEBUG", "Metrics update">> >>)
  /\ Len(visited) = 1
  /\ bt.lastCurrent = MaxSeq
  /\ bt.pingLatencySampleCount = 1

\* C26: initialized turns true in the first Update whose snapshot passes
\* validation and in no other step, and never turns false again; as long as
\* it is false the six totals are zero; a failed fetch and a rejected
\* snapshot leave it false.
C26_InitializedOnce ==
  /\ [](~bt.initialized => Totals(bt) = ZeroTotals)
  /\ [][/\ bt.initialized => bt'.initialized
        /\ bt'.initialized # bt.initialized
             => (ProcessStep /\ OneNonZeroLength(history))
        /\ (ProcessStep /\ OneNonZeroLength(history)) => bt'.initialized]_vars

\* The accumulator has been initialized by the last tick, after ticks whose
\* fetch failed or whose snapshot was rejected.
C26_Witness ==
  /\ UpdateLogged(<< <<"INFO", "Bandwidth tracker initialized">> >>)
  /\ ticks = MaxTicks
  /\ bt.initialized
  /\ Totals(bt) = ZeroTotals

\* The sum over the slots idxs of arr, each sample divided by div before it
\* is added.
RECURSIVE SumOver(_, _, _)
SumOver(arr, idxs, div) ==
  IF idxs = <<>> THEN 0
  ELSE (arr[Head(idxs) + 1] \div div) + SumOver(arr, Tail(idxs), div)

\* C27: in an integrating Update each total grows by the sum, over the
\* slots visited, of the samples of its own array under its own conversion:
\* downlink / 8, uplink / 8, power, latency / 1000, drop rate; no total
\* depends on another array.
C27_OwnArray ==
  [][(/\ ProcessStep
      /\ OneNonZeroLength(history)
      /\ bt.initialized
      /\ history.Current > bt.lastCurrent)
     => /\ bt'.downloadBytesTotal = bt.downloadBytesTotal
             + SumOver(history.DownlinkThroughputBps, visited', 8)
        /\ bt'.uploadBytesTotal = bt.uploadBytesTotal
             + SumOver(history.UplinkThroughputBps, visited', 8)
        /\ bt'.energyJoulesTotal = bt.energyJoulesTotal
             + SumOver(history.PowerIn, visited', 1)
        /\ bt'.pingLatencySecondsSum = bt.pingLatencySecondsSum
             + SumOver(history.PopPingLatencyMs, visited', 1000)
        /\ bt'.pingDropCount = bt.pingDropCount
             + SumOver(history.PopPingDropRate, visited', 1)]_vars

\* A whole buffer of more than one slot has been integrated in one Update
\* and the five sums differ from one another.
C27_Witness ==
  /\ UpdateLogged(<< <<"DEBUG", "Metrics update">> >>)
  /\ Len(visited) = MaxLen
  /\ Cardinality({bt.downloadBytesTotal, bt.uploadBytesTotal, bt.energyJoulesTotal,
                  bt.pingLatencySecondsSum, bt.pingDropCount}) = 5

\* C28: each of the six counter values a scrape sends is at least the
\* value a scrape that had returned before it began sent for the same
\* counter, on the success and the failure path alike and whatever the
\* poller did in between.
C28_CounterContinuity ==
  (scPc[Follower] = "idle" /\ out[Follower].up >= 0)
    => \A e \in before : \A i \in 1..6 : Emitted(Follower)[i] >= e[i]

\* A scrape on the failure path has returned non-zero counters; a scrape
\* on the success path had returned zero counters before it began, and the
\* poller has integrated samples and then failed to fetch in between.
C28_Witness ==
  /\ ScrapeDone(Follower, 0)
  /\ ScrapeDone("s1", 1)
  /\ before = {ZeroTotals}
  /\ \A i \in 1..5 : Emitted(Follower)[i] > 0
  /\ bt.lastError = "err"

C30_InBounds ==
  [][pollerPc = "process"
     => /\ pollerPc' # "panicked"
        /\ \A k \in 1..Len(visited') :
             visited'[k] >= 0 /\ visited'[k] < ArrayLen(history)
        /\ Len(visited') > 0 => InRange(history, ArrayLen(history) - 1)]_vars

\* A capped overrun of a one-slot buffer has been integrated after a
\* longer buffer had been processed, with lastCurrent beyond both lengths.
C30_Witness ==
  /\ UpdateLogged(<< <<"WARN", "Time delta exceeds history buffer size">>,
                     <<"DEBUG", "Metrics update">> >>)
  /\ bufLen = {1, MaxLen}
  /\ visited = <<0>>
  /\ bt.lastCurrent = MaxSeq

\* C31: lastError reflects only the most recent completed poll: null
\* before the first poll, and once a tick's calls have returned non-null
\* exactly when that tick's GetHistory failed; it changes only where
\* update() stores the fetch error and where processHistory runs, and
\* every processHistory call leaves it null, whether the snapshot is then
\* rejected by validation, is a no-op or is integrated.
C31_LastErrorIsLastPoll ==
  /\ [](ticks = 0 => bt.lastError = "nil")
  /\ []((ticks > 0 /\ pollerPc = "select")
          => (bt.lastError # "nil" <=> calls.result = "err"))
  /\ [][/\ bt'.lastError # bt.lastError => pollerPc \in {"errStore", "process"}
        /\ pollerPc = "errStore" => bt'.lastError = "err"
        /\ pollerPc = "process" => bt'.lastError = "nil"]_vars

\* A poll whose Update was a no-op has completed on the third tick or
\* later and lastError is null.
C31_Witness ==
  /\ UpdateLogged(<<>>)
  /\ ticks >= 3
  /\ calls = [get |-> 1, update |-> 1, result |-> "ok"]
  /\ bt.lastError = "nil"

\* An Update that integrates: a valid snapshot with a sequence above
\* lastCurrent is being processed on an initialized accumulator.
Integrating ==
  /\ ProcessStep
  /\ OneNonZeroLength(history)
  /\ bt.initialized
  /\ history.Current > bt.lastCurrent

\* C32: with no regression, no delta above N and one buffer length N, the
\* windows of integrating Updates are contiguous.  An integrating Update
\* visits as many positions as its sequence advances by, each the slot
\* after the one before (mod N), and when the Update before it integrated
\* too, its first slot is the one after that Update's last; so the number
\* of positions visited so far, which is the ping sample count, stays
\* equal to lastCurrent minus the sequence of the initializing Update: it
\* is zero when that Update sets lastCurrent and grows in step with it.
C32_ContiguousWindows ==
  [][/\ (Integrating /\ ~regressed' /\ ~overrun' /\ bufLen' = {ArrayLen(history)})
        => /\ Len(visited') = history.Current - bt.lastCurrent
           /\ \A k \in 1..(Len(visited') - 1) :
                visited'[k + 1] = (visited'[k] + 1) % ArrayLen(history)
           /\ visited # <<>>
                => visited'[1] = (visited[Len(visited)] + 1) % ArrayLen(history)
     /\ (ProcessStep /\ OneNonZeroLength(history) /\ ~bt.initialized)
        => bt'.pingLatencySampleCount = 0 /\ bt'.lastCurrent = history.Current
     /\ (bt.initialized /\ ~regressed' /\ ~overrun')
        => bt'.lastCurrent - bt'.pingLatencySampleCount
             = bt.lastCurrent - bt.pingLatencySampleCount]_vars

\* Two Updates in a row have integrated, the second one a window of two
\* slots that wraps around the end of the buffer, with no regression and
\* no overrun so far.
C32_Witness ==
  /\ UpdateLogged(<< <<"DEBUG", "Metrics update">> >>)
  /\ ~regressed /\ ~overrun
  /\ bufLen = {MaxLen}
  /\ visited = <<MaxLen - 1, 0>>
  /\ bt.pingLatencySampleCount = MaxTicks
  /\ ticks = MaxTicks

\* C33 (as stated): every Update rejected by validation, for empty arrays
\* or for mismatched lengths, logs a record at error level.
C33_AsStated ==
  [][(ProcessStep /\ ~OneNonZeroLength(history))
     => \E k \in 1..Len(log') : log'[k][1] = "ERROR"]_vars

\* C33 (amended): every Update rejected by validation logs exactly one
\* record: at warning level when the downlink array is empty (whatever the
\* other four hold), at error level when the downlink array is non-empty
\* and another array differs from it in length.
C33_ValidationLogLevels ==
  [][(ProcessStep /\ ~OneNonZeroLength(history))
     => /\ Len(log') = 1
        /\ log'[1][1] = IF Len(history.DownlinkThroughputBps) = 0
                          THEN "WARN" ELSE "ERROR"]_vars

\* Empty arrays have been rejected with a warning by an accumulator that
\* had integrated samples before.
C33_Witness ==
  /\ UpdateLogged(<< <<"WARN", "Empty history arrays">> >>)
  /\ bt.initialized
  /\ bt.pingLatencySampleCount > 0

====
